---- MODULE Spec2Model ----
(***************************************************************************)
(* A model of FilaSimples.py: the linear congruential generator kept in    *)
(* the module globals previous / random_count, and simulate_queue, the     *)
(* event loop of a G/G/c/K queue driven by that generator.                 *)
(*                                                                         *)
(* Numbers.  TLC integers are 32 bits wide, M = 2**32 is not one of them.  *)
(* The generator state is therefore kept as two 16-bit limbs <<hi, lo>>    *)
(* (value hi*B + lo), and a time as <<w, h, l>>, the value                 *)
(* w + (h*B + l) / 2**32.  With integer scenario parameters every float    *)
(* the program computes is a multiple of 2**-32 far below 2**21, so the    *)
(* IEEE doubles of the program are exact and this fixed point arithmetic   *)
(* computes the same values.  The divisions of the result record round;    *)
(* they are computed as doubles, see below.                                *)
(***************************************************************************)
EXTENDS Integers, Sequences, FiniteSets, TLC

VARIABLES previous, random_count, gen_budget, gen_ok, gen_fails, frames

vars == <<previous, random_count, gen_budget, gen_ok, gen_fails, frames>>

(***************************************************************************)
(* previous, random_count   the module globals of the generator            *)
(* frames[r]                the call r of simulate_queue: pc, its          *)
(*                          parameters, its locals current_time, state,    *)
(*                          losses, time_in_state, event_list, and the     *)
(*                          result it returned                             *)
(* History, read by the properties only:                                   *)
(* gen_budget, gen_ok, gen_fails   the count given to the last             *)
(*                          reset_random, and the calls of next_random     *)
(*                          that returned / raised since                   *)
(* frames[r].popped, .pops  the last event removed (with the list it was   *)
(*                          removed from and its place in it), and how     *)
(*                          many were removed                              *)
(* frames[r].ended_by       "guard" or "break"                             *)
(* frames[r].leftover       random_count when the call was made (SpecSeq)  *)
(* frames[r].solo           no other call used the generator meanwhile     *)
(***************************************************************************)

(***************************************************************************)
(* Bounds of the model.                                                    *)
(***************************************************************************)
MaxServers == 2
MaxBudget == 6
MaxFails == 2

(***************************************************************************)
(* Program constants.                                                      *)
(***************************************************************************)
a == 1664525
c == 1013904223
B == 65536
SEED == 12345

(***************************************************************************)
(* Fixed point arithmetic on <<w, h, l>>.                                  *)
(***************************************************************************)
TNorm(w, h, l) ==
    LET hh == h + (l \div B)
    IN  <<w + (hh \div B), hh % B, l % B>>

TFromInt(n) == <<n, 0, 0>>

T0 == TFromInt(0)

TAdd(x, y) == TNorm(x[1] + y[1], x[2] + y[2], x[3] + y[3])

TSub(x, y) == TNorm(x[1] - y[1], x[2] - y[2], x[3] - y[3])

TScale(d, x) == TNorm(d * x[1], d * x[2], d * x[3])

TLess(x, y) ==
    \/ x[1] < y[1]
    \/ x[1] = y[1] /\ x[2] < y[2]
    \/ x[1] = y[1] /\ x[2] = y[2] /\ x[3] < y[3]

TLeq(x, y) == x = y \/ TLess(x, y)

(***************************************************************************)
(* The quotients of the result record are not multiples of 2**-32: they   *)
(* are kept as the IEEE 754 doubles the program computes, rounded to       *)
(* nearest, ties to even.  A double that is zero or positive (the program  *)
(* divides no other) is [m, e], the value m * 2**e, where m is an integer  *)
(* of exactly 53 bits, or 0 with e = 0.  An integer below 2**63 is held as *)
(* <<w, h, l>>, w * 2**32 + h * B + l: a time read as a count of 2**-32.   *)
(***************************************************************************)
FZero == [m |-> T0, e |-> 0]

TOne == <<0, 0, 1>>

\* the number of bits of a non-negative integer
Bits(n) == Cardinality({k \in 0..30 : 2^k <= n})

BitLen(x) ==
    IF x[1] > 0 THEN 32 + Bits(x[1])
    ELSE IF x[2] > 0 THEN 16 + Bits(x[2])
    ELSE Bits(x[3])

\* x * 2**k, for a result below 2**63
TShl(x, k) ==
    LET y == CASE k \div 16 = 0 -> x
               [] k \div 16 = 1 -> <<x[1] * B + x[2], x[3], 0>>
               [] k \div 16 = 2 -> <<x[2] * B + x[3], 0, 0>>
               [] OTHER -> <<x[3] * B, 0, 0>>
    IN  TScale(2^(k % 16), y)

\* x \div 2**k
TShr(x, k) ==
    LET y == CASE k \div 16 = 0 -> x
               [] k \div 16 = 1 -> <<x[1] \div B, x[1] % B, x[2]>>
               [] k \div 16 = 2 -> <<0, x[1] \div B, x[1] % B>>
               [] k \div 16 = 3 -> <<0, 0, x[1] \div B>>
               [] OTHER -> T0
        d == 2^(k % 16)
    IN  <<y[1] \div d, (y[2] + (y[1] % d) * B) \div d,
          (y[3] + (y[2] % d) * B) \div d>>

\* the double nearest to (x + f) * 2**e, ties to even: x an integer of 53
\* bits or more, and 0 < f < 1 if sticky, f = 0 if not
FRound(x, e, sticky) ==
    LET k == BitLen(x) - 53
        m == TShr(x, k)
        rest == TSub(x, TShl(m, k))
        half == TShl(TOne, k - 1)
        up == /\ k > 0
              /\ \/ TLess(half, rest)
                 \/ rest = half /\ (sticky \/ m[3] % 2 = 1)
        n == IF up THEN TAdd(m, TOne) ELSE m
    IN  IF BitLen(n) > 53 THEN [m |-> TShr(n, 1), e |-> e + k + 1]
        ELSE [m |-> n, e |-> e + k]

\* long division in base 2**10: n more digits of the quotient q of r / s,
\* s an integer of 53 bits and r < s
RECURSIVE DivDigits(_, _, _, _)
DivDigits(r, s, q, n) ==
    IF n = 0 THEN <<q, r>>
    ELSE LET d == TScale(1024, r)
             low == d[1] \div (s[1] + 1)
             rl == TSub(d, TScale(low, s))
             digit == IF TLeq(s, rl) THEN low + 1 ELSE low
             rr == IF TLeq(s, rl) THEN TSub(rl, s) ELSE rl
         IN  DivDigits(rr, s, TAdd(TScale(1024, q), <<0, 0, digit>>), n - 1)

\* t / s for t >= 0, s > 0
FDiv(t, s) ==
    IF t = T0 THEN FZero
    ELSE LET tt == TShl(t, 53 - BitLen(t))
             ss == TShl(s, 53 - BitLen(s))
             first == IF TLeq(ss, tt) THEN 1 ELSE 0
             qr == DivDigits(TSub(tt, TScale(first, ss)), ss,
                             <<0, 0, first>>, 6)
         IN  FRound(qr[1], BitLen(t) - BitLen(s) - 60, qr[2] # T0)

\* x * n, n a non-negative integer below 2**10
FMul(x, n) ==
    IF n = 0 \/ x.m = T0 THEN FZero
    ELSE FRound(TScale(n, x.m), x.e, FALSE)

\* x + y
FAdd(x, y) ==
    IF x.m = T0 THEN y
    ELSE IF y.m = T0 THEN x
    ELSE LET big == IF x.e >= y.e THEN x ELSE y
             small == IF x.e >= y.e THEN y ELSE x
             k == big.e - small.e
             four == TScale(4, small.m)
             part == TShr(four, k)
         IN  FRound(TAdd(TScale(4, big.m), part), big.e - 2,
                    k >= 64 \/ TShl(part, k) # four)

(***************************************************************************)
(* The generator.                                                          *)
(***************************************************************************)
Limbs(n) == <<n \div B, n % B>>

LCG_no_increment(prev) ==
    LET lo == (a % B) * prev[2]
        hi == (a % B) * prev[1] + (a \div B) * prev[2] + (lo \div B)
    IN  <<hi % B, lo % B>>

\* previous = (a * previous + c) % M, on limbs
LCG(prev) ==
    LET lo == (a % B) * prev[2] + (c % B)
        hi == (a % B) * prev[1] + (a \div B) * prev[2] + (c \div B) + (lo \div B)
    IN  <<hi % B, lo % B>>

\* previous / M
Variate(prev) == <<0, prev[1], prev[2]>>

reset_random_count_only(seed, count) ==
    [previous |-> previous, random_count |-> count]

reset_random(seed, count) ==
    [previous |-> Limbs(seed), random_count |-> count]

next_random_raises_late(count) == count < 0

next_random_raises(count) == count <= 0

Decrement_not(count) == count

Decrement(count) == count - 1

(***************************************************************************)
(* Scenario parameters and the frames of simulate_queue.                   *)
(***************************************************************************)
Runs == {1, 2}

\* [min, max] pairs: a point at zero, points, proper intervals, and one
\* malformed pair (min > max)
Intervals == {<<0, 0>>, <<1, 1>>, <<1, 2>>, <<2, 2>>, <<2, 1>>}

FirstArrivals == {0, 2}

MakeParams(s, k, f, arr, srv, n, sd) ==
    [servers |-> s, capacity |-> k, first_arrival |-> f,
     min_arrival |-> arr[1], max_arrival |-> arr[2],
     min_service |-> srv[1], max_service |-> srv[2],
     num_randoms |-> n, seed |-> sd]

P0 == MakeParams(0, 0, 0, <<0, 0>>, <<0, 0>>, 0, 0)

NoEvent == [time |-> T0, type |-> "none", index |-> 0, pending |-> <<>>]

NoResult ==
    [simulation_time |-> T0, time_in_state |-> <<>>, probabilities |-> <<>>,
     losses |-> 0, avg_population |-> FZero]

IdleFrame ==
    [pc |-> "idle", ended_by |-> "none", params |-> P0,
     current_time |-> T0, state |-> 0, losses |-> 0,
     time_in_state |-> <<>>, event_list |-> <<>>,
     popped |-> NoEvent, pops |-> 0, leftover |-> 0, solo |-> TRUE,
     result |-> NoResult]

(***************************************************************************)
(* The event list.  heapq keeps a binary heap of (time, type) tuples; what *)
(* the program can observe of it is which tuple heappop returns, the least *)
(* one in Python's tuple order.  event_list is kept here in insertion      *)
(* order, and equal tuples, which the program cannot tell apart, leave in  *)
(* insertion order.                                                        *)
(***************************************************************************)
\* "arrival" < "departure" as Python strings
TypeLess(t1, t2) == t1 = "arrival" /\ t2 = "departure"

EventLess_time(e1, e2) == TLess(e1[1], e2[1])

\* (time1, type1) < (time2, type2) as Python tuples
EventLess(e1, e2) ==
    \/ TLess(e1[1], e2[1])
    \/ e1[1] = e2[1] /\ TypeLess(e1[2], e2[2])

HeapMinIndex_first(list) == 1

HeapMinIndex(list) ==
    CHOOSE i \in DOMAIN list :
        \A j \in DOMAIN list :
            /\ ~EventLess(list[j], list[i])
            /\ (list[j] = list[i] => i <= j)

heappush(list, ev) == Append(list, ev)

heappop(list) ==
    LET i == HeapMinIndex(list)
    IN  [event |-> list[i], index |-> i,
         rest |-> [j \in 1..(Len(list) - 1) |->
                       IF j < i THEN list[j] ELSE list[j + 1]]]

(***************************************************************************)
(* simulate_queue, piece by piece.  A machine m is a frame m.f together    *)
(* with the generator globals m.g the frame's code reads and writes.       *)
(***************************************************************************)
Gen ==
    [previous |-> previous, random_count |-> random_count,
     gen_ok |-> gen_ok, gen_fails |-> gen_fails]

LoopGuard_early(f, count) == f.event_list # <<>> /\ count > 1

LoopGuard_no_count(f, count) == f.event_list # <<>>

\* while event_list and random_count > 0
LoopGuard(f, count) == f.event_list # <<>> /\ count > 0

\* time_in_state[state], a Python list subscript
PyIndexOK(i, len) == -len <= i /\ i < len

PyIndex(i, len) == IF i < 0 THEN i + len ELSE i

Delta_absolute(event_time, now) == event_time

\* delta = event_time - current_time
Delta(event_time, now) == TSub(event_time, now)

PopAccrue_after_transition(f) ==
    LET p == heappop(f.event_list)
        len == Cardinality(DOMAIN f.time_in_state)
        after == IF p.event[2] = "departure" THEN f.state - 1
                 ELSE IF f.state < f.params.capacity THEN f.state + 1
                 ELSE f.state
        taken == [f EXCEPT !.event_list = p.rest,
                           !.pops = @ + 1,
                           !.popped = [time |-> p.event[1],
                                       type |-> p.event[2],
                                       index |-> p.index,
                                       pending |-> f.event_list]]
    IN  IF ~PyIndexOK(after, len)
        THEN [taken EXCEPT !.pc = "raised"]
        ELSE [taken EXCEPT
                 !.time_in_state[PyIndex(after, len)] =
                     TAdd(@, Delta(p.event[1], f.current_time)),
                 !.current_time = p.event[1]]

\* heappop, then the accrual of the time spent in the current state
PopAccrue(f) ==
    LET p == heappop(f.event_list)
        len == Cardinality(DOMAIN f.time_in_state)
        taken == [f EXCEPT !.event_list = p.rest,
                           !.pops = @ + 1,
                           !.popped = [time |-> p.event[1],
                                       type |-> p.event[2],
                                       index |-> p.index,
                                       pending |-> f.event_list]]
    IN  IF ~PyIndexOK(f.state, len)
        THEN [taken EXCEPT !.pc = "raised"]
        ELSE [taken EXCEPT
                 !.time_in_state[PyIndex(f.state, len)] =
                     TAdd(@, Delta(p.event[1], f.current_time)),
                 !.current_time = p.event[1]]

Draw_uncaught(m) ==
    IF next_random_raises(m.g.random_count)
    THEN [m EXCEPT !.g.gen_fails = @ + 1, !.f.pc = "raised"]
    ELSE [m EXCEPT !.g.random_count = Decrement(@),
                   !.g.previous = LCG(@),
                   !.g.gen_ok = @ + 1]

\* x = next_random() inside try / except: break
Draw(m) ==
    IF next_random_raises(m.g.random_count)
    THEN [m EXCEPT !.g.gen_fails = @ + 1,
                   !.f.pc = "exit", !.f.ended_by = "break"]
    ELSE [m EXCEPT !.g.random_count = Decrement(@),
                   !.g.previous = LCG(@),
                   !.g.gen_ok = @ + 1]

Broke(m) == m.f.pc = "exit"

\* lo + (hi - lo) * x, added to current_time
Later(now, lo, hi, prev) ==
    TAdd(now, TAdd(TFromInt(lo), TScale(hi - lo, Variate(prev))))

ScheduleDeparture(m, P) ==
    LET d == Draw(m)
    IN  IF Broke(d) THEN d
        ELSE [d EXCEPT !.f.event_list =
                 heappush(@, <<Later(d.f.current_time, P.min_service,
                                     P.max_service, d.g.previous),
                               "departure">>)]

ScheduleArrival(m, P) ==
    LET d == Draw(m)
    IN  IF Broke(d) THEN d
        ELSE [d EXCEPT !.f.event_list =
                 heappush(@, <<Later(d.f.current_time, P.min_arrival,
                                     P.max_arrival, d.g.previous),
                               "arrival">>)]

Accepts_at_capacity(state, capacity) == state <= capacity

\* if state < capacity
Accepts(state, capacity) == state < capacity

\* if state <= servers, after the increment
StartsService(state, servers) == state <= servers

NextStartsService_one_early(state, servers) == state >= servers - 1

NextStartsService_strict(state, servers) == state > servers

\* if state >= servers, after the decrement
NextStartsService(state, servers) == state >= servers

CountLoss_and_enter(m) ==
    [m EXCEPT !.f.losses = @ + 1, !.f.state = @ + 1]

\* losses += 1
CountLoss(m) == [m EXCEPT !.f.losses = @ + 1]

ArrivalHandler_accepted_only(m, P) ==
    IF Accepts(m.f.state, P.capacity)
    THEN LET inc == [m EXCEPT !.f.state = @ + 1]
             h == IF StartsService(inc.f.state, P.servers)
                  THEN ScheduleDeparture(inc, P)
                  ELSE inc
         IN  IF Broke(h) THEN h ELSE ScheduleArrival(h, P)
    ELSE CountLoss(m)

ArrivalHandler_arrival_first(m, P) ==
    LET h == IF Accepts(m.f.state, P.capacity)
             THEN [m EXCEPT !.f.state = @ + 1]
             ELSE CountLoss(m)
        n == ScheduleArrival(h, P)
    IN  IF Broke(n) THEN n
        ELSE IF /\ Accepts(m.f.state, P.capacity)
                /\ StartsService(h.f.state, P.servers)
             THEN ScheduleDeparture(n, P)
             ELSE n

ArrivalHandler(m, P) ==
    LET h == IF Accepts(m.f.state, P.capacity)
             THEN LET inc == [m EXCEPT !.f.state = @ + 1]
                  IN  IF StartsService(inc.f.state, P.servers)
                      THEN ScheduleDeparture(inc, P)
                      ELSE inc
             ELSE CountLoss(m)
    IN  IF Broke(h) THEN h ELSE ScheduleArrival(h, P)

DepartureHandler(m, P) ==
    LET dec == [m EXCEPT !.f.state = @ - 1]
    IN  IF NextStartsService(dec.f.state, P.servers)
        THEN ScheduleDeparture(dec, P)
        ELSE dec

\* one iteration of the loop body
LoopBody(f, g) ==
    LET acc == PopAccrue(f)
        m == [f |-> acc, g |-> g]
    IN  IF acc.pc = "raised" THEN m
        ELSE IF acc.popped.type = "arrival"
             THEN ArrivalHandler(m, f.params)
             ELSE DepartureHandler(m, f.params)

\* the frame between reset_random and the loop
StartFrame(P, left) ==
    [IdleFrame EXCEPT
        !.pc = "loop", !.params = P, !.leftover = left,
        !.time_in_state = [i \in 0..P.capacity |-> T0],
        !.event_list = heappush(<<>>,
                                <<TFromInt(P.first_arrival), "arrival">>)]

Probability_fraction(t, simulation_time) ==
    IF TLess(T0, simulation_time)
    THEN FDiv(t, simulation_time)
    ELSE FZero

\* (t / simulation_time * 100) if simulation_time > 0 else 0
Probability(t, simulation_time) ==
    IF TLess(T0, simulation_time)
    THEN FMul(FDiv(t, simulation_time), 100)
    ELSE FZero

\* sum(...) of the doubles t[0], ..., t[n], from the left
RECURSIVE FSumTo(_, _)
FSumTo(t, n) == IF n < 0 THEN FZero ELSE FAdd(FSumTo(t, n - 1), t[n])

\* sum(i * (time_in_state[i] / simulation_time) ...) if simulation_time > 0
\* else 0
AvgPopulation(time_in_state, simulation_time) ==
    IF TLess(T0, simulation_time)
    THEN FSumTo([i \in DOMAIN time_in_state |->
                    FMul(FDiv(time_in_state[i], simulation_time), i)],
                Cardinality(DOMAIN time_in_state) - 1)
    ELSE FZero

\* the result record; the parameters it repeats are frames[r].params
Aggregate(f) ==
    [simulation_time |-> f.current_time,
     time_in_state |-> f.time_in_state,
     probabilities |-> [i \in DOMAIN f.time_in_state |->
                           Probability(f.time_in_state[i], f.current_time)],
     losses |-> f.losses,
     avg_population |-> AvgPopulation(f.time_in_state, f.current_time)]

(***************************************************************************)
(* Actions.                                                                *)
(***************************************************************************)
InLoop(r) == frames[r].pc = "loop"

Running(r) == frames[r].pc \in {"loop", "exit"}

NoneRunning == \A r \in Runs : ~Running(r)

AllIdle == \A r \in Runs : frames[r].pc = "idle"

Crashed == \E r \in Runs : frames[r].pc = "raised"

\* run r takes a step that uses the generator: every other run inside its
\* loop has now shared the generator with it
Put(r, f) ==
    frames' = [q \in Runs |->
                  IF q = r THEN f
                  ELSE IF InLoop(q) THEN [frames[q] EXCEPT !.solo = FALSE]
                  ELSE frames[q]]

SetGen(g) ==
    /\ previous' = g.previous
    /\ random_count' = g.random_count
    /\ gen_ok' = g.gen_ok
    /\ gen_fails' = g.gen_fails

Init ==
    /\ previous = Limbs(0)
    /\ random_count = 0
    /\ gen_budget = 0
    /\ gen_ok = 0
    /\ gen_fails = 0
    /\ frames = [r \in Runs |-> IdleFrame]

\* the caller calls reset_random(seed, count)
CallReset(seed, count) ==
    /\ NoneRunning /\ ~Crashed
    /\ LET g == reset_random(seed, count)
       IN  /\ previous' = g.previous
           /\ random_count' = g.random_count
    /\ gen_budget' = count
    /\ gen_ok' = 0
    /\ gen_fails' = 0
    /\ UNCHANGED frames

\* the caller calls next_random() and gets a variate
CallNextRandom ==
    /\ NoneRunning /\ ~Crashed
    /\ ~next_random_raises(random_count)
    /\ random_count' = Decrement(random_count)
    /\ previous' = LCG(previous)
    /\ gen_ok' = gen_ok + 1
    /\ UNCHANGED <<gen_budget, gen_fails, frames>>

\* the caller calls next_random() and gets the exception
CallNextRandomRaises ==
    /\ NoneRunning /\ ~Crashed
    /\ next_random_raises(random_count)
    /\ gen_fails < MaxFails
    /\ gen_fails' = gen_fails + 1
    /\ UNCHANGED <<previous, random_count, gen_budget, gen_ok, frames>>

\* simulate_queue(...) up to the loop; left is what the caller wants noted
\* in the frame about the stream the call discards
Simulate(r, P, left) ==
    /\ frames[r].pc = "idle" /\ ~Crashed
    /\ LET g == reset_random(P.seed, P.num_randoms)
       IN  /\ previous' = g.previous
           /\ random_count' = g.random_count
    /\ gen_budget' = P.num_randoms
    /\ gen_ok' = 0
    /\ gen_fails' = 0
    /\ Put(r, StartFrame(P, left))

\* one iteration whose event is an arrival
LoopArrival(r) ==
    /\ InLoop(r)
    /\ LoopGuard(frames[r], random_count)
    /\ heappop(frames[r].event_list).event[2] = "arrival"
    /\ LET m == LoopBody(frames[r], Gen)
       IN  SetGen(m.g) /\ Put(r, m.f)
    /\ UNCHANGED gen_budget

\* one iteration whose event is a departure
LoopDeparture(r) ==
    /\ InLoop(r)
    /\ LoopGuard(frames[r], random_count)
    /\ heappop(frames[r].event_list).event[2] = "departure"
    /\ LET m == LoopBody(frames[r], Gen)
       IN  SetGen(m.g) /\ Put(r, m.f)
    /\ UNCHANGED gen_budget

\* the loop guard is false
LoopExit(r) ==
    /\ InLoop(r)
    /\ ~LoopGuard(frames[r], random_count)
    /\ frames' = [frames EXCEPT ![r].pc = "exit", ![r].ended_by = "guard"]
    /\ UNCHANGED <<previous, random_count, gen_budget, gen_ok, gen_fails>>

\* the statements after the loop, up to return
Return(r) ==
    /\ frames[r].pc = "exit"
    /\ frames' = [frames EXCEPT ![r].pc = "returned",
                                ![r].result = Aggregate(frames[r])]
    /\ UNCHANGED <<previous, random_count, gen_budget, gen_ok, gen_fails>>

\* the caller hands the result to print_report and drops it
print_report(r) ==
    /\ frames[r].pc = "returned"
    /\ frames' = [frames EXCEPT ![r] = IdleFrame]
    /\ UNCHANGED <<previous, random_count, gen_budget, gen_ok, gen_fails>>

(***************************************************************************)
(* Spec: the main program's shape, one simulate_queue at a time, each      *)
(* result printed before the next run; between runs the caller may use the *)
(* generator directly.                                                     *)
(***************************************************************************)
Seeds == {0, SEED}

Scenarios ==
    {MakeParams(s, k, f, arr, srv, n, sd) :
        s \in 0..MaxServers, k \in (-1)..(MaxServers + 1),
        f \in FirstArrivals, arr \in Intervals, srv \in Intervals,
        n \in 0..MaxBudget, sd \in Seeds}

\* the seeds of the caller's own resets: also a negative one and the
\* largest the model's integers hold
ResetSeeds == Seeds \cup {-1, 2147483647}

Next ==
    \/ AllIdle /\ \E sd \in ResetSeeds, n \in (-1)..MaxBudget :
                      CallReset(sd, n)
    \/ AllIdle /\ CallNextRandom
    \/ AllIdle /\ CallNextRandomRaises
    \/ AllIdle /\ \E P \in Scenarios : Simulate(1, P, 0)
    \/ LoopArrival(1)
    \/ LoopDeparture(1)
    \/ LoopExit(1)
    \/ Return(1)
    \/ print_report(1)

Spec == Init /\ [][Next]_vars

(***************************************************************************)
(* SpecSeq: two simulate_queue calls one after the other, result1 and      *)
(* result2 of the main program, both results kept; before and between the  *)
(* calls the caller may reset the generator and draw from it, so that a    *)
(* call finds a stream partly consumed.                                    *)
(***************************************************************************)
SeqScenarios ==
    {MakeParams(1, k, 0, <<1, 2>>, srv, n, sd) :
        k \in {1, 2}, srv \in {<<1, 2>>, <<2, 2>>},
        n \in {2, MaxBudget - 2}, sd \in Seeds}

NextSeq ==
    \/ \E sd \in Seeds : CallReset(sd, MaxBudget)
    \/ CallNextRandom
    \/ CallNextRandomRaises
    \/ NoneRunning /\ \E r \in Runs, P \in SeqScenarios :
                         Simulate(r, P, random_count)
    \/ \E r \in Runs : LoopArrival(r)
    \/ \E r \in Runs : LoopDeparture(r)
    \/ \E r \in Runs : LoopExit(r)
    \/ \E r \in Runs : Return(r)
    \/ \E r \in Runs : print_report(r)

SpecSeq == Init /\ [][NextSeq]_vars

(***************************************************************************)
(* SpecPar: two threads of the same interpreter call simulate_queue once   *)
(* each and interleave one loop iteration at a time (a thread switch can   *)
(* fall anywhere, these are some of the interleavings).  A frame keeps     *)
(* solo = TRUE when no other run used the generator while it was in its    *)
(* loop: it then ran as it runs alone.                                     *)
(***************************************************************************)
ParScenarios ==
    {MakeParams(1, 2, 0, <<1, 2>>, srv, n, SEED) :
        srv \in {<<1, 2>>, <<2, 2>>}, n \in {3, 4}}

NextPar ==
    \/ \E r \in Runs, P \in ParScenarios : Simulate(r, P, 0)
    \/ \E r \in Runs : LoopArrival(r)
    \/ \E r \in Runs : LoopDeparture(r)
    \/ \E r \in Runs : LoopExit(r)
    \/ \E r \in Runs : Return(r)

SpecPar == Init /\ [][NextPar]_vars

(***************************************************************************)
(* Properties.                                                             *)
(***************************************************************************)
\* the inputs section 6 of the specification calls valid
Valid(P) ==
    /\ P.servers >= 1 /\ P.capacity >= P.servers
    /\ P.first_arrival >= 0
    /\ 0 <= P.min_arrival /\ P.min_arrival <= P.max_arrival
    /\ 0 <= P.min_service /\ P.min_service <= P.max_service
    /\ P.num_randoms >= 1

\* the inputs section 7 of the specification wants rejected
Rejected(P) ==
    \/ P.capacity < 0 \/ P.servers <= 0
    \/ P.min_arrival > P.max_arrival \/ P.min_service > P.max_service
    \/ P.num_randoms <= 0

Called(r) == frames[r].pc # "idle"

RECURSIVE SumTo(_, _)
SumTo(t, n) == IF n < 0 THEN T0 ELSE TAdd(SumTo(t, n - 1), t[n])

\* sum(time_in_state)
Sum(t) == SumTo(t, Cardinality(DOMAIN t) - 1)

Pending(list, type) == {i \in DOMAIN list : list[i][2] = type}

\* C1: with valid parameters the occupancy stays within 0..capacity in
\* every state of a run, whatever events were processed.
C1_OccupancyInRange ==
    \A r \in Runs :
        Called(r) /\ Valid(frames[r].params) =>
            /\ 0 <= frames[r].state
            /\ frames[r].state <= frames[r].params.capacity

\* a run with valid parameters that filled the system, lost a customer and
\* has just served one
C1_Witness ==
    \E r \in Runs :
        /\ InLoop(r) /\ Valid(frames[r].params)
        /\ frames[r].losses >= 1
        /\ frames[r].popped.type = "departure"
        /\ frames[r].state = frames[r].params.capacity - 1

\* C2: in the result of every completed run, however its loop ended, the
\* entries of time_in_state add up to simulation_time.
C2_SumEqualsClock ==
    \A r \in Runs :
        frames[r].pc = "returned" =>
            Sum(frames[r].result.time_in_state)
                = frames[r].result.simulation_time

\* a run cut short by a failed draw, returned after time passed in more
\* than one state
C2_Witness ==
    \E r \in Runs :
        /\ frames[r].pc = "returned" /\ frames[r].ended_by = "break"
        /\ \E i, j \in DOMAIN frames[r].result.time_in_state :
               /\ i # j
               /\ TLess(T0, frames[r].result.time_in_state[i])
               /\ TLess(T0, frames[r].result.time_in_state[j])

\* C3: after reset_random(seed, budget) the calls of next_random succeed
\* while fewer than budget have succeeded and fail from then on; a failing
\* call changes neither previous nor random_count.
C3_BudgetThenExhaustion ==
    [][ /\ gen_ok' > gen_ok => gen_ok' <= gen_budget /\ gen_fails = 0
        /\ gen_fails' > gen_fails =>
              /\ gen_budget >= 0 => gen_ok' = gen_budget
              /\ gen_ok' = gen_ok =>
                    previous' = previous /\ random_count' = random_count
      ]_vars

\* the caller has drawn the whole budget and then failed twice
C3_Witness ==
    /\ AllIdle
    /\ gen_budget >= 2 /\ gen_ok = gen_budget /\ gen_fails = 2
    /\ random_count = 0

\* C4: invalid parameters are rejected before the run starts: no event is
\* processed and no result returned.
C4_InvalidRejected ==
    \A r \in Runs :
        Called(r) /\ Rejected(frames[r].params) =>
            frames[r].pops = 0 /\ frames[r].pc # "returned"

C9_LossesOnlyWhenFull ==
    [][ \A r \in Runs :
          LET f == frames[r]
              g == frames'[r]
          IN  f.pc = "loop" /\ g.pops = f.pops + 1 =>
                IF g.popped.type = "arrival" /\ f.state = f.params.capacity
                THEN /\ g.losses = f.losses + 1
                     /\ g.state = f.state
                     /\ Cardinality(Pending(g.event_list, "departure"))
                            = Cardinality(Pending(f.event_list, "departure"))
                ELSE g.losses = f.losses
      ]_vars

\* an arrival has just been lost while a customer is in service
C9_Witness ==
    \E r \in Runs :
        /\ InLoop(r)
        /\ frames[r].popped.type = "arrival"
        /\ frames[r].losses >= 1
        /\ frames[r].state = frames[r].params.capacity
        /\ Pending(frames[r].popped.pending, "departure") # {}
        /\ Pending(frames[r].event_list, "departure")
               = Pending(frames[r].popped.pending, "departure")

\* C10: with valid parameters, whenever the loop guard is evaluated with
\* variates left, an arrival is pending.
C10_ArrivalPending ==
    \A r \in Runs :
        InLoop(r) /\ Valid(frames[r].params) /\ random_count > 0 =>
            Pending(frames[r].event_list, "arrival") # {}

\* the guard evaluated with variates left after a loss
C10_Witness ==
    \E r \in Runs :
        /\ InLoop(r) /\ Valid(frames[r].params) /\ random_count > 0
        /\ frames[r].losses >= 1
        /\ Pending(frames[r].event_list, "arrival") # {}

\* C6: a run interleaved with another returns what a run made alone with
\* the same parameters returns.
C6_NoInterference ==
    \A r \in Runs, q \in Runs :
        /\ frames[r].pc = "returned" /\ frames[q].pc = "returned"
        /\ frames[r].params = frames[q].params
        /\ frames[r].solo
        => frames[q].result = frames[r].result

\* C7: two calls made one after the other with the same parameters return
\* the same result, whatever the generator was left at before each.
C7_SameParamsSameResult ==
    \A r \in Runs, q \in Runs :
        /\ frames[r].pc = "returned" /\ frames[q].pc = "returned"
        /\ frames[r].params = frames[q].params
        => frames[q].result = frames[r].result

\* two results of the same parameters, the second call made while the
\* stream of an earlier reset still had variates and a different state
C7_Witness ==
    /\ frames[1].pc = "returned" /\ frames[2].pc = "returned"
    /\ frames[1].params = frames[2].params
    /\ frames[1].leftover = 0 /\ frames[2].leftover > 0
    /\ frames[2].pops >= 3
    /\ TLess(T0, frames[2].result.simulation_time)

\* C8: a run with valid parameters makes at most budget draws and removes
\* at most 2 * budget events, never raises, and every iteration that
\* comes back to the loop guard has removed one more event: the loop is
\* left after at most 2 * budget iterations, and the run returns.
C8_TerminatesWithinBudget ==
    [][ \A r \in Runs :
          LET f == frames[r]
              g == frames'[r]
          IN  g.pc # "idle" /\ Valid(g.params) =>
                /\ gen_ok' <= g.params.num_randoms
                /\ g.pops <= 2 * g.params.num_randoms
                /\ g.pc # "raised"
                /\ f.pc = "loop" /\ g.pc = "loop" => g.pops = f.pops + 1
                /\ f.pc = "loop" => g.pc \in {"loop", "exit"}
                /\ f.pc = "exit" => g.pc = "returned"
      ]_vars

\* a returned run that used its whole budget over several events
C8_Witness ==
    \E r \in Runs :
        /\ frames[r].pc = "returned" /\ Valid(frames[r].params)
        /\ gen_ok = frames[r].params.num_randoms
        /\ frames[r].pops >= 4

\* C11: a run with valid parameters stops when the budget is used up: once
\* its loop is left, and in the state it returns in, random_count is 0 and
\* all num_randoms draws have succeeded.
C11_BudgetUsedUp ==
    \A r \in Runs :
        /\ frames[r].pc \in {"exit", "returned"}
        /\ Valid(frames[r].params)
        => /\ random_count = 0
           /\ gen_ok = frames[r].params.num_randoms

\* a run returned after its guard found the budget used up, several events
\* handled, a departure still pending
C11_Witness ==
    /\ frames[1].pc = "returned" /\ Valid(frames[1].params)
    /\ frames[1].ended_by = "guard"
    /\ frames[1].pops >= 3
    /\ Pending(frames[1].event_list, "departure") # {}
    /\ random_count = 0

\* C12: when capacity = servers nobody waits: an iteration that removes an
\* arrival while state = capacity counts a loss and leaves state alone,
\* state never exceeds servers, and an iteration that removes a departure
\* draws nothing and schedules nothing.
C12_NoWaitingRoom ==
    [][ \A r \in Runs :
          LET f == frames[r]
              g == frames'[r]
          IN  /\ f.pc = "loop" /\ g.pops = f.pops + 1
              /\ f.params.capacity = f.params.servers
              => /\ g.state <= f.params.servers
                 /\ g.popped.type = "arrival" /\ f.state = f.params.capacity
                       => g.losses = f.losses + 1 /\ g.state = f.state
                 /\ g.popped.type = "departure"
                       => /\ gen_ok' = gen_ok /\ gen_fails' = gen_fails
                          /\ previous' = previous
                          /\ random_count' = random_count
                          /\ g.event_list = heappop(f.event_list).rest
      ]_vars

\* capacity = servers = 2: both servers were busy, an arrival was lost,
\* and a departure has just freed a server while the other is still busy
C12_Witness ==
    /\ InLoop(1)
    /\ frames[1].params.capacity = 2 /\ frames[1].params.servers = 2
    /\ frames[1].losses >= 1
    /\ frames[1].popped.type = "departure"
    /\ frames[1].state = 1
    /\ Pending(frames[1].event_list, "departure") # {}

\* C13: a draw that fails inside a run never leaves simulate_queue as an
\* exception: the loop is left by break and the run returns a result whose
\* simulation_time is the time of the last event removed, and whose
\* time_in_state holds nothing beyond that time.
C13_ExhaustionCaught ==
    \A r \in Runs :
        Called(r) /\ gen_fails > 0 =>
            /\ frames[r].pc \in {"exit", "returned"}
            /\ frames[r].ended_by = "break"
            /\ frames[r].pc = "returned" =>
                  /\ frames[r].result.simulation_time = frames[r].popped.time
                  /\ Sum(frames[r].result.time_in_state)
                         = frames[r].popped.time

\* a run ended by a failed draw in the handler of its fifth event or a
\* later one, returned with a positive simulation_time
C13_Witness ==
    /\ frames[1].pc = "returned" /\ frames[1].ended_by = "break"
    /\ gen_fails = 1
    /\ frames[1].pops >= 5
    /\ TLess(T0, frames[1].result.simulation_time)
    /\ frames[1].result.simulation_time = frames[1].popped.time

\* 100.0
FHundred == FMul([m |-> TShl(TOne, 52), e |-> -52], 100)

\* sum(probabilities)
Total(probabilities) ==
    FSumTo(probabilities, Cardinality(DOMAIN probabilities) - 1)

\* C14: in a returned result with simulation_time > 0 the probabilities
\* add up to 100, as doubles to 100.0 within one unit in the last place
\* (2**-46) per state; with simulation_time = 0 every probability and
\* avg_population are 0.
C14_ProbabilitiesSumTo100 ==
    \A r \in Runs :
        frames[r].pc = "returned" =>
            LET res == frames[r].result
                n == Cardinality(DOMAIN res.probabilities)
                total == Total(res.probabilities)
            IN  IF TLess(T0, res.simulation_time)
                THEN /\ total.e = FHundred.e
                     /\ TLeq(TSub(total.m, FHundred.m), <<0, 0, n>>)
                     /\ TLeq(TSub(FHundred.m, total.m), <<0, 0, n>>)
                ELSE /\ res.simulation_time = T0
                     /\ \A i \in DOMAIN res.probabilities :
                            res.probabilities[i] = FZero
                     /\ res.avg_population = FZero

\* a result with time spent in three states, none of the three quotients
\* exact, and a sum that rounding has moved off 100.0
C14_Witness ==
    /\ frames[1].pc = "returned"
    /\ TLess(T0, frames[1].result.simulation_time)
    /\ Cardinality({i \in DOMAIN frames[1].result.probabilities :
                        frames[1].result.probabilities[i] # FZero}) >= 3
    /\ Total(frames[1].result.probabilities) # FHundred

\* a result with simulation_time = 0: first_arrival = 0 and the run cut
\* short in the handler of its first event
C14_WitnessZero ==
    /\ frames[1].pc = "returned" /\ frames[1].ended_by = "break"
    /\ frames[1].pops = 1
    /\ frames[1].result.simulation_time = T0
    /\ frames[1].result.probabilities # <<>>

\* C15: an iteration adds event.time - current_time to time_in_state[k],
\* k the state before the event's transition, leaves the other entries
\* alone and sets current_time to event.time; so does the last iteration,
\* the one a failed draw cuts short.
C15_AccrualFrame ==
    [][ \A r \in Runs :
          LET f == frames[r]
              g == frames'[r]
          IN  f.pc = "loop" /\ g.pops = f.pops + 1 /\ g.pc # "raised" =>
                /\ g.popped.time = heappop(f.event_list).event[1]
                /\ g.current_time = g.popped.time
                /\ DOMAIN g.time_in_state = DOMAIN f.time_in_state
                /\ \A i \in DOMAIN f.time_in_state :
                       g.time_in_state[i] =
                           IF i = f.state
                           THEN TAdd(f.time_in_state[i],
                                     TSub(g.popped.time, f.current_time))
                           ELSE f.time_in_state[i]
      ]_vars

\* the iteration of an arrival at time 2 or later was cut short by a
\* failed draw: the time up to that arrival has been added to the entry of
\* the state the arrival found, which is not the state it left
C15_Witness ==
    /\ frames[1].pc = "exit" /\ frames[1].ended_by = "break"
    /\ frames[1].popped.type = "arrival"
    /\ frames[1].pops >= 3
    /\ TLeq(TFromInt(2), frames[1].popped.time)
    /\ frames[1].current_time = frames[1].popped.time
    /\ frames[1].state >= 1
    /\ TLess(T0, frames[1].time_in_state[frames[1].state - 1])
    /\ Sum(frames[1].time_in_state) = frames[1].popped.time

\* C16: the iteration of an arrival whose draws all succeed schedules one
\* next arrival, whether the customer was accepted or lost, and a departure
\* exactly if the customer was accepted and the state it made is at most
\* servers; the departure then takes the first variate drawn and the
\* arrival the second.
C16_ArrivalSchedules ==
    [][ \A r \in Runs :
          LET f == frames[r]
              g == frames'[r]
              P == f.params
              rest == heappop(f.event_list).rest
              now == g.popped.time
              accepted == f.state < P.capacity
              served == accepted /\ f.state + 1 <= P.servers
              first == LCG(previous)
              second == LCG(first)
          IN  /\ f.pc = "loop" /\ g.pc = "loop" /\ g.pops = f.pops + 1
              /\ g.popped.type = "arrival"
              => IF served
                 THEN /\ g.event_list =
                            rest \o
                            << <<Later(now, P.min_service, P.max_service,
                                       first), "departure">>,
                               <<Later(now, P.min_arrival, P.max_arrival,
                                       second), "arrival">> >>
                      /\ previous' = second
                 ELSE /\ g.event_list =
                            Append(rest,
                                   <<Later(now, P.min_arrival,
                                           P.max_arrival, first),
                                     "arrival">>)
                      /\ previous' = first
      ]_vars

\* an accepted arrival, not the first, has just scheduled its departure
\* and then the next arrival, each with a variate of its own
C16_Witness ==
    LET f == frames[1]
        n == Len(f.event_list)
    IN  /\ InLoop(1) /\ f.popped.type = "arrival" /\ f.pops >= 2
        /\ f.params.min_service < f.params.max_service
        /\ f.params.min_arrival < f.params.max_arrival
        /\ n = Len(f.popped.pending) + 1
        /\ f.event_list[n - 1][2] = "departure"
        /\ f.event_list[n] =
               <<Later(f.current_time, f.params.min_arrival,
                       f.params.max_arrival, previous), "arrival">>
        /\ f.event_list[n - 1][1] #
               Later(f.current_time, f.params.min_service,
                     f.params.max_service, previous)

Min(x, y) == IF x <= y THEN x ELSE y

\* C17: with valid parameters, whenever the loop guard is evaluated the
\* pending departures are min(state, servers) in number; the iteration of
\* a departure schedules a departure exactly if the state it leaves is at
\* least servers.
C17_DeparturesMatchBusyServers ==
    [][ \A r \in Runs :
          LET f == frames[r]
              g == frames'[r]
              rest == heappop(f.event_list).rest
          IN  Valid(g.params) =>
                /\ g.pc = "loop" =>
                      Cardinality(Pending(g.event_list, "departure"))
                          = Min(g.state, g.params.servers)
                /\ /\ f.pc = "loop" /\ g.pops = f.pops + 1
                   /\ g.popped.type = "departure"
                   => /\ g.state = f.state - 1
                      /\ g.event_list # rest <=> g.state >= g.params.servers
                      /\ g.event_list # rest =>
                            /\ Len(g.event_list) = Len(rest) + 1
                            /\ g.event_list[Len(g.event_list)][2]
                                   = "departure"
                            /\ \A j \in DOMAIN rest : g.event_list[j] = rest[j]
      ]_vars

\* a departure has just left a customer waiting no longer: the state it
\* leaves is above servers, and every server has its departure pending
C17_Witness ==
    /\ InLoop(1) /\ Valid(frames[1].params)
    /\ frames[1].popped.type = "departure"
    /\ frames[1].state > frames[1].params.servers
    /\ Cardinality(Pending(frames[1].event_list, "departure"))
           = frames[1].params.servers
    /\ Len(frames[1].event_list) = Len(frames[1].popped.pending)

\* C18: a draw of a service time never fails.  An iteration ends by a
\* failed draw exactly if it removes an arrival that is accepted and
\* starts service while random_count = 1: the service draw takes the last
\* variate and the interarrival draw fails.  The state then keeps its
\* increment, the departure stays scheduled and no arrival is scheduled.
C18_OnlyInterarrivalDrawFails ==
    [][ \A r \in Runs :
          LET f == frames[r]
              g == frames'[r]
              P == f.params
              rest == heappop(f.event_list).rest
          IN  f.pc = "loop" /\ g.pops = f.pops + 1 /\ g.pc # "raised" =>
                /\ gen_fails' > gen_fails <=>
                      /\ g.popped.type = "arrival"
                      /\ f.state < P.capacity /\ f.state + 1 <= P.servers
                      /\ random_count = 1
                /\ gen_fails' > gen_fails =>
                      /\ g.pc = "exit" /\ g.ended_by = "break"
                      /\ gen_fails' = gen_fails + 1
                      /\ gen_ok' = gen_ok + 1 /\ random_count' = 0
                      /\ g.state = f.state + 1
                      /\ g.event_list =
                             Append(rest,
                                    <<Later(g.popped.time, P.min_service,
                                            P.max_service, previous'),
                                      "departure">>)
                /\ g.popped.type = "departure" => gen_fails' = gen_fails
      ]_vars

\* the second arrival or a later one took the last variate for its
\* service time: its departure is pending, no arrival is
C18_Witness ==
    /\ frames[1].pc = "exit" /\ frames[1].ended_by = "break"
    /\ frames[1].popped.type = "arrival" /\ frames[1].pops >= 3
    /\ gen_fails = 1 /\ random_count = 0
    /\ Pending(frames[1].event_list, "arrival") = {}
    /\ Cardinality(Pending(frames[1].event_list, "departure")) = 2
    /\ frames[1].state = 2

\* C19: with valid parameters current_time never decreases: the events
\* leave the list in non-decreasing order of time, every interval added to
\* time_in_state is >= 0, and so is every entry of time_in_state in every
\* state.
C19_ClockMonotonic ==
    [][ \A r \in Runs :
          LET f == frames[r]
              g == frames'[r]
          IN  Valid(g.params) =>
                /\ TLeq(T0, g.current_time)
                /\ \A i \in DOMAIN g.time_in_state :
                       TLeq(T0, g.time_in_state[i])
                /\ f.pc = "loop" /\ g.pops = f.pops + 1 =>
                      /\ TLeq(f.current_time, g.current_time)
                      /\ TLeq(f.popped.time, g.popped.time)
                      /\ TLeq(T0, Delta(g.popped.time, f.current_time))
                      /\ \A j \in DOMAIN g.event_list :
                             TLeq(g.current_time, g.event_list[j][1])
      ]_vars

\* after a loss and time spent in two states, a departure has left the
\* list ahead of an arrival that is pending for a later time
C19_Witness ==
    LET f == frames[1]
    IN  /\ InLoop(1) /\ Valid(f.params)
        /\ f.popped.type = "departure"
        /\ \E j \in DOMAIN f.popped.pending :
               /\ f.popped.index < j
               /\ f.popped.pending[j][2] = "arrival"
               /\ TLess(f.popped.time, f.popped.pending[j][1])
        /\ Cardinality({i \in DOMAIN f.time_in_state :
                            TLess(T0, f.time_in_state[i])}) >= 2
        /\ f.losses >= 1

\* byte i of a non-negative integer, byte 0 the lowest
Byte(n, i) == (n \div 256^i) % 256

\* (a * x + c) mod M, multiplied out byte by byte with the carries
Recurrence(x) ==
    LET x0 == x[2] % 256
        x1 == x[2] \div 256
        x2 == x[1] % 256
        x3 == (x[1] \div 256) % 256
        s0 == Byte(a, 0) * x0 + Byte(c, 0)
        s1 == Byte(a, 0) * x1 + Byte(a, 1) * x0 + Byte(c, 1) + s0 \div 256
        s2 == Byte(a, 0) * x2 + Byte(a, 1) * x1 + Byte(a, 2) * x0
                  + Byte(c, 2) + s1 \div 256
        s3 == Byte(a, 0) * x3 + Byte(a, 1) * x2 + Byte(a, 2) * x1
                  + Byte(a, 3) * x0 + Byte(c, 3) + s2 \div 256
    IN  <<(s3 % 256) * 256 + (s2 % 256), (s1 % 256) * 256 + (s0 % 256)>>

\* 0 <= x < M, and 0 <= x / M < 1
InRange(x) ==
    /\ x[1] \in 0..(B - 1) /\ x[2] \in 0..(B - 1)
    /\ TLeq(T0, Variate(x)) /\ TLess(Variate(x), TFromInt(1))

\* C20: whatever the seed, a call of next_random that returns sets
\* previous to (a * previous + c) mod M, a value in 0..M-1 whose quotient
\* by M is in [0, 1), and takes exactly one from random_count;
\* random_count grows in no step but a reset.
C20_Recurrence ==
    [][ LET k == gen_ok' - gen_ok
            one == Recurrence(previous)
        IN  /\ k >= 1 =>
                  /\ k <= 2
                  /\ InRange(one)
                  /\ previous' = IF k = 1 THEN one ELSE Recurrence(one)
                  /\ InRange(previous')
                  /\ random_count' = random_count - k
            /\ random_count' > random_count =>
                  /\ gen_ok' = 0 /\ gen_fails' = 0
                  /\ random_count' = gen_budget'
      ]_vars

\* the caller has reset the generator with the seed -1 and drawn twice
C20_Witness ==
    /\ AllIdle
    /\ gen_budget >= 3 /\ gen_ok = 2
    /\ random_count = gen_budget - 2
    /\ previous = Recurrence(Recurrence(Limbs(-1)))
    /\ InRange(previous)

====
